---- MODULE Spec2Model ----
(***************************************************************************)
(* BitcoindWallet (src/src/wallet/bitcoin.ts): a client of a bitcoind      *)
(* JSON-RPC node.  Every async method is a chain of continuations around   *)
(* its awaits: the invocation runs up to the first await (issuing the      *)
(* first remote call), the node serves the call, and the continuation      *)
(* runs from the response up to the next await or to the return / throw.   *)
(* Several operations may be in flight at once; the client orders nothing. *)
(***************************************************************************)
EXTENDS Integers, Sequences, FiniteSets, TLC

VARIABLES
    chain,      \* node: the chain getblockchaininfo reports
    wallets,    \* node: wallet name -> "absent" | "loaded" | "unloaded"
    ops,        \* client: every operation invoked so far, in invocation order
    calls,      \* every remote call issued so far, in issue order
    handles     \* client: the rpcRequestConfig of every BitcoindWallet constructed

vars == <<chain, wallets, ops, calls, handles>>

(* ------------------------------ bounds ------------------------------- *)

MaxOps == 3

(* ------------------------------ inputs ------------------------------- *)

Networks == {"bitcoin", "testnet", "regtest"}
NodeWallets == {"a", "b", "c"}
InitLoaded == {"a", "b"}
WalletNames == {"a", "c"}
HttpUrl == "http://localhost:18443"
Auth == [username |-> "user", password |-> "pass"]
\* privkey?: string -- <<>> is undefined, <<k>> is the string k
PrivKeys == {<<>>, <<"cPriv">>}
Addresses == {"addr1"}
TxHexes == {"0200beef"}
\* the call sites that may each have one operation in flight
CallSites == {"site1", "site2"}

(* --------------------- JS numbers holding satoshis -------------------- *)
\* A satoshi amount is a JS number holding an integer below 2^53; it is kept
\* as hi * 10^8 + lo (whole bitcoin, remaining satoshis), both 32-bit safe.
SatPerBtc == 100000000
TwoPow26 == 67108864
MaxSafeHi == 90071992
MaxSafeLo == 54740991

Sat(hi, lo) == [hi |-> hi, lo |-> lo]

IsSafeInteger(s) ==
    /\ s.hi \in 0..MaxSafeHi
    /\ s.lo \in 0..(SatPerBtc - 1)
    /\ (s.hi = MaxSafeHi => s.lo <= MaxSafeLo)

SatSucc(s) == IF s.lo = SatPerBtc - 1 THEN Sat(s.hi + 1, 0) ELSE Sat(s.hi, s.lo + 1)
SatPred(s) == IF s.lo = 0 THEN Sat(s.hi - 1, SatPerBtc - 1) ELSE Sat(s.hi, s.lo - 1)

(* --------------------------- toBitcoin -------------------------------- *)
\* satoshi-bitcoin's toBitcoin(satoshi) is Number(new Big(satoshi).div(1e8)):
\* the exact decimal satoshi / 10^8 converted to the nearest double.  The
\* number is written into the JSON request body as the shortest decimal that
\* reads back as the same double (Number::toString), which is the value the
\* node receives.  Amounts are decimals with 8 places: [units, e8] stands for
\* units + e8 / 10^8.

RECURSIVE MulPow2Mod(_, _)
\* (x * 2^n) % 10^8, by doubling (every intermediate value fits 32 bits)
MulPow2Mod(x, n) == IF n = 0 THEN x % SatPerBtc ELSE MulPow2Mod((2 * x) % SatPerBtc, n - 1)

\* 1 / (the gap between neighbouring doubles around s / 10^8): 2^(52 - k) for
\* 2^k <= s / 10^8 < 2^(k+1).  It is 2^26 in the top binade of the safe
\* integers; below it is 2^27 or more, and only "at least 10^8" matters there.
DoublesPerUnitLog2(s) == IF s.hi >= TwoPow26 THEN 26 ELSE 27
DoublesPerUnit(s) == IF s.hi >= TwoPow26 THEN TwoPow26 ELSE 2 * TwoPow26

\* (s * 2^j + 10^8 / 2) % 10^8: how far s / 10^8 lies above the lower edge of
\* the rounding interval of its nearest double, in units of 2^-j / 10^8.
RoundRem(s) == (MulPow2Mod(s.lo, DoublesPerUnitLog2(s)) + (SatPerBtc \div 2)) % SatPerBtc

\* s / 10^8 and (s + 1) / 10^8 round to the same double
SameDoubleAsSucc(s) ==
    /\ DoublesPerUnitLog2(s) = DoublesPerUnitLog2(SatSucc(s))
    /\ RoundRem(s) + DoublesPerUnit(s) < SatPerBtc

\* distance of s / 10^8 from its nearest double, same units as RoundRem
DistToDouble(s) ==
    LET r == RoundRem(s) IN IF r >= SatPerBtc \div 2 THEN r - SatPerBtc \div 2 ELSE SatPerBtc \div 2 - r

RECURSIVE NumDigits(_)
NumDigits(n) == IF n < 10 THEN 1 ELSE 1 + NumDigits(n \div 10)

RECURSIVE TrailingZeros(_)
TrailingZeros(n) == IF n = 0 \/ n % 10 # 0 THEN 0 ELSE 1 + TrailingZeros(n \div 10)

\* significant decimal digits of s / 10^8
SigDigits(s) ==
    IF s.hi = 0 /\ s.lo = 0 THEN 1
    ELSE (IF s.hi > 0 THEN NumDigits(s.hi) + 8 ELSE NumDigits(s.lo))
         - (IF s.lo = 0 THEN 8 + TrailingZeros(s.hi) ELSE TrailingZeros(s.lo))

\* Number::toString: among the decimals that read back as the same double, the
\* one with the fewest digits, then the closest to the double, then the even one
PrintsBefore(c, d) ==
    \/ SigDigits(c) < SigDigits(d)
    \/ /\ SigDigits(c) = SigDigits(d)
       /\ \/ DistToDouble(c) < DistToDouble(d)
          \/ DistToDouble(c) = DistToDouble(d) /\ c.lo % 2 = 0

\* toBitcoin with integer division by the conversion factor
toBitcoinTruncating(satoshis) == [units |-> satoshis.hi, e8 |-> 0]

toBitcoin(satoshis) ==
    LET same == {satoshis}
                \cup (IF SameDoubleAsSucc(satoshis) THEN {SatSucc(satoshis)} ELSE {})
                \cup (IF satoshis.hi >= TwoPow26 /\ SameDoubleAsSucc(SatPred(satoshis))
                      THEN {SatPred(satoshis)} ELSE {})
        printed == CHOOSE c \in same : \A d \in same \ {c} : PrintsBefore(c, d)
    IN  [units |-> printed.hi, e8 |-> printed.lo]

(* ------------------------- requests and handles ----------------------- *)

\* `${httpUrl}/wallet/${walletName}`
walletUrlUnscoped(httpUrl, walletName) == <<httpUrl>>
walletUrl(httpUrl, walletName) == <<httpUrl, "/wallet/", walletName>>

\* rpcRequestConfig = { url, method: "post", auth }
rpcRequestConfig(httpUrl, auth, walletName) ==
    [url |-> walletUrl(httpUrl, walletName), method |-> "post", auth |-> auth]

\* !!privkey
Truthy(privkey) == privkey # <<>> /\ privkey[1] # ""

\* res.data.result.includes(walletName)
walletExistsNever(result, walletName) == FALSE
walletExists(result, walletName) == walletName \in result

\* res.data.result.chain !== network, negated
chainMatchesAlways(result, network) == TRUE
chainMatches(result, network) == result.chain = network

\* the rejection of assertNetwork
mismatchMessageGeneric(network) == <<"This wallet is connected to another network">>
mismatchMessage(network) ==
    <<"This wallet is only connected to the ", network,
      " network and cannot perform actions on the ", network, " network">>

\* getFee's return value
feeOther == "151"
fee == "150"

FundsMethods == {"sendtoaddress", "sendrawtransaction"}
WalletMethods == {"importprivkey", "getbalance", "getnewaddress", "sendtoaddress",
                  "sendrawtransaction", "getblockchaininfo", "unloadwallet"}

\* an axios request: issued pending, served (or failed) by the node later
Request(o, method, url, verb, auth, params) ==
    [op |-> o, method |-> method, url |-> url, verb |-> verb, auth |-> auth,
     params |-> params, state |-> "pending", result |-> "none",
     chainAt |-> "none"]   \* chainAt: the node's chain when it executed a funds-moving call

\* axios.post(httpUrl, {jsonrpc, method, params}, {auth})
Post(o, method, httpUrl, auth, params) == Request(o, method, <<httpUrl>>, "post", auth, params)

\* axios.request({...config, data: {jsonrpc, method, params}}): the url, the
\* http method and the credentials are those of the config spread into it
ConfigRequest(o, config, method, params) ==
    Request(o, method, config.url, config.method, config.auth, params)

\* axios.request({...this.rpcRequestConfig, data: {jsonrpc, method, params}})
HandleRequest(o, h, method, params) == ConfigRequest(o, handles[h], method, params)

CallsOf(o) == {i \in 1..Len(calls) : calls[i].op = o}
LastCall(o) == CHOOSE i \in CallsOf(o) : \A j \in CallsOf(o) : j <= i

\* the awaited promise of operation o has settled
Settled(o) ==
    /\ o \in 1..Len(ops)
    /\ ops[o].state = "running"
    /\ calls[LastCall(o)].state # "pending"

Awaited(o) == calls[LastCall(o)]

InFlight == {o \in 1..Len(ops) : ops[o].state = "running"}

\* a call site is free to invoke one more operation
MayInvoke == Len(ops) < MaxOps /\ Cardinality(InFlight) < Cardinality(CallSites)

\* operations that had already returned or thrown when the next one is invoked
\* (kept for stating what "invoked after" means; the client keeps no such record)
Finished == {o \in 1..Len(ops) : ops[o].state # "running"}

Running(kind, pc, args) ==
    [kind |-> kind, state |-> "running", pc |-> pc, value |-> "none", args |-> args,
     prior |-> Finished]

\* the async function returns: its promise resolves with value
Return(o, value) == [ops EXCEPT ![o].state = "resolved", ![o].pc = "done", ![o].value = value]

\* a rejected await throws out of the async function: its promise rejects with
\* the same reason
ThrowWrapped(o, reason) ==
    [ops EXCEPT ![o].state = "rejected", ![o].pc = "done",
                ![o].value = [failure |-> "wrapped", call |-> 0]]
Throw(o, reason) == [ops EXCEPT ![o].state = "rejected", ![o].pc = "done", ![o].value = reason]

(* ------------------------------ newInstance --------------------------- *)

\* new BitcoindWallet(rpcRequestConfig), returned
Construct(o) ==
    LET a == ops[o].args IN
    /\ handles' = Append(handles, rpcRequestConfig(HttpUrl, Auth, a.walletName))
    /\ ops' = Return(o, [handle |-> Len(handles) + 1])

\* newInstance that does not await the importprivkey request
AfterWalletReadyNoAwait(o) ==
    LET a == ops[o].args IN
    IF Truthy(a.privkey)
    THEN /\ calls' = Append(calls, ConfigRequest(o, rpcRequestConfig(HttpUrl, Auth, a.walletName),
                                               "importprivkey", <<a.privkey[1]>>))
         /\ Construct(o)
    ELSE Construct(o) /\ UNCHANGED calls

\* from the wallet being there: import the key if one was given, then return
AfterWalletReady(o) ==
    LET a == ops[o].args IN
    IF Truthy(a.privkey)
    THEN /\ calls' = Append(calls, ConfigRequest(o, rpcRequestConfig(HttpUrl, Auth, a.walletName),
                                               "importprivkey", <<a.privkey[1]>>))
         /\ ops' = [ops EXCEPT ![o].pc = "importprivkey"]
         /\ UNCHANGED handles
    ELSE Construct(o) /\ UNCHANGED calls

\* BitcoindWallet.newInstance(httpUrl, username, password, walletName, privkey),
\* up to the await of listwallets
newInstance(walletName, privkey) ==
    /\ MayInvoke
    /\ ops' = Append(ops, Running("newInstance", "listwallets",
                                  [walletName |-> walletName, privkey |-> privkey]))
    /\ calls' = Append(calls, Post(Len(ops) + 1, "listwallets", HttpUrl, Auth, <<>>))
    /\ UNCHANGED <<chain, wallets, handles>>

\* listwallets has settled
newInstanceListed(o) ==
    /\ Settled(o) /\ ops[o].kind = "newInstance" /\ ops[o].pc = "listwallets"
    /\ LET res == Awaited(o)
           a == ops[o].args
       IN  IF res.state = "failed"
           THEN ops' = Throw(o, res.result) /\ UNCHANGED <<calls, handles>>
           ELSE IF ~walletExists(res.result, a.walletName)
           THEN /\ calls' = Append(calls, Post(o, "createwallet", HttpUrl, Auth,
                                                  <<a.walletName>>))
                /\ ops' = [ops EXCEPT ![o].pc = "createwallet"]
                /\ UNCHANGED handles
           ELSE AfterWalletReady(o)
    /\ UNCHANGED <<chain, wallets>>

\* createwallet has settled
newInstanceCreated(o) ==
    /\ Settled(o) /\ ops[o].kind = "newInstance" /\ ops[o].pc = "createwallet"
    /\ IF Awaited(o).state = "failed"
       THEN ops' = Throw(o, Awaited(o).result) /\ UNCHANGED <<calls, handles>>
       ELSE AfterWalletReady(o)
    /\ UNCHANGED <<chain, wallets>>

\* importprivkey has settled
newInstanceImported(o) ==
    /\ Settled(o) /\ ops[o].kind = "newInstance" /\ ops[o].pc = "importprivkey"
    /\ IF Awaited(o).state = "failed"
       THEN ops' = Throw(o, Awaited(o).result) /\ UNCHANGED handles
       ELSE Construct(o)
    /\ UNCHANGED <<chain, wallets, calls>>

(* --------------------- getBalance, getAddress, close ------------------ *)

\* an instance method made of one awaited request: the part up to the await
Invoke1(kind, h, method) ==
    /\ MayInvoke
    /\ h \in 1..Len(handles)
    /\ ops' = Append(ops, Running(kind, method, [h |-> h]))
    /\ calls' = Append(calls, HandleRequest(Len(ops) + 1, h, method, <<>>))
    /\ UNCHANGED <<chain, wallets, handles>>

getBalance(h) == Invoke1("getBalance", h, "getbalance")
getAddress(h) == Invoke1("getAddress", h, "getnewaddress")
close(h) == Invoke1("close", h, "unloadwallet")

\* return res.data.result
getBalanceDone(o) ==
    /\ Settled(o) /\ ops[o].kind = "getBalance"
    /\ ops' = IF Awaited(o).state = "failed" THEN Throw(o, Awaited(o).result)
              ELSE Return(o, Awaited(o).result)
    /\ UNCHANGED <<chain, wallets, calls, handles>>

getAddressDone(o) ==
    /\ Settled(o) /\ ops[o].kind = "getAddress"
    /\ ops' = IF Awaited(o).state = "failed" THEN Throw(o, Awaited(o).result)
              ELSE Return(o, Awaited(o).result)
    /\ UNCHANGED <<chain, wallets, calls, handles>>

\* close that drops the handle's url once the wallet is unloaded
closeDoneClearing(o) ==
    /\ Settled(o) /\ ops[o].kind = "close"
    /\ ops' = IF Awaited(o).state = "failed" THEN Throw(o, Awaited(o).result)
              ELSE Return(o, "undefined")
    /\ handles' = [handles EXCEPT ![ops[o].args.h].url = <<>>]
    /\ UNCHANGED <<chain, wallets, calls>>

\* Promise<void>
closeDone(o) ==
    /\ Settled(o) /\ ops[o].kind = "close"
    /\ ops' = IF Awaited(o).state = "failed" THEN Throw(o, Awaited(o).result)
              ELSE Return(o, "undefined")
    /\ UNCHANGED <<chain, wallets, calls, handles>>

\* getFee(): synchronous, no request
getFee(h) ==
    /\ MayInvoke
    /\ h \in 1..Len(handles)
    /\ ops' = Append(ops, [kind |-> "getFee", state |-> "resolved", pc |-> "done",
                           value |-> fee, args |-> [h |-> h], prior |-> Finished])
    /\ UNCHANGED <<chain, wallets, calls, handles>>

(* ------------------- sendToAddress, broadcastTransaction -------------- *)

\* assertNetwork that lets a mismatch pass
assertNetworkLenient(res, network) ==
    IF res.state = "failed"
    THEN [rejected |-> TRUE, reason |-> res.result]
    ELSE [rejected |-> FALSE, reason |-> "none"]

\* what `await this.assertNetwork(network)` gives once getblockchaininfo has
\* settled with res: a rejection (the request's own, or the mismatch) or nothing
assertNetwork(res, network) ==
    IF res.state = "failed"
    THEN [rejected |-> TRUE, reason |-> res.result]
    ELSE IF ~chainMatches(res.result, network)
    THEN [rejected |-> TRUE, reason |-> mismatchMessage(network)]
    ELSE [rejected |-> FALSE, reason |-> "none"]

\* sendToAddress(address, satoshis, network), up to the await in assertNetwork
sendToAddress(h, address, satoshis, network) ==
    /\ MayInvoke
    /\ h \in 1..Len(handles)
    /\ ops' = Append(ops, Running("sendToAddress", "assertNetwork",
                [h |-> h, address |-> address, satoshis |-> satoshis, network |-> network]))
    /\ calls' = Append(calls, HandleRequest(Len(ops) + 1, h, "getblockchaininfo", <<>>))
    /\ UNCHANGED <<chain, wallets, handles>>

\* assertNetwork has settled: throw, or request sendtoaddress
sendToAddressChecked(o) ==
    /\ Settled(o) /\ ops[o].kind = "sendToAddress" /\ ops[o].pc = "assertNetwork"
    /\ LET a == ops[o].args
           checked == assertNetwork(Awaited(o), a.network)
       IN  IF checked.rejected
           THEN ops' = Throw(o, checked.reason) /\ UNCHANGED calls
           ELSE /\ calls' = Append(calls, HandleRequest(o, a.h, "sendtoaddress",
                                          <<a.address, toBitcoin(a.satoshis)>>))
                /\ ops' = [ops EXCEPT ![o].pc = "sendtoaddress"]
    /\ UNCHANGED <<chain, wallets, handles>>

\* sendtoaddress has settled: return res.data.result
sendToAddressDone(o) ==
    /\ Settled(o) /\ ops[o].kind = "sendToAddress" /\ ops[o].pc = "sendtoaddress"
    /\ ops' = IF Awaited(o).state = "failed" THEN Throw(o, Awaited(o).result)
              ELSE Return(o, Awaited(o).result)
    /\ UNCHANGED <<chain, wallets, calls, handles>>

\* broadcastTransaction(transactionHex, network), up to the await in assertNetwork
broadcastTransaction(h, transactionHex, network) ==
    /\ MayInvoke
    /\ h \in 1..Len(handles)
    /\ ops' = Append(ops, Running("broadcastTransaction", "assertNetwork",
                [h |-> h, transactionHex |-> transactionHex, network |-> network]))
    /\ calls' = Append(calls, HandleRequest(Len(ops) + 1, h, "getblockchaininfo", <<>>))
    /\ UNCHANGED <<chain, wallets, handles>>

\* assertNetwork has settled: throw, or request sendrawtransaction
broadcastTransactionChecked(o) ==
    /\ Settled(o) /\ ops[o].kind = "broadcastTransaction" /\ ops[o].pc = "assertNetwork"
    /\ LET a == ops[o].args
           checked == assertNetwork(Awaited(o), a.network)
       IN  IF checked.rejected
           THEN ops' = Throw(o, checked.reason) /\ UNCHANGED calls
           ELSE /\ calls' = Append(calls, HandleRequest(o, a.h, "sendrawtransaction",
                                          <<a.transactionHex>>))
                /\ ops' = [ops EXCEPT ![o].pc = "sendrawtransaction"]
    /\ UNCHANGED <<chain, wallets, handles>>

\* sendrawtransaction has settled: return res.data.result
broadcastTransactionDone(o) ==
    /\ Settled(o) /\ ops[o].kind = "broadcastTransaction" /\ ops[o].pc = "sendrawtransaction"
    /\ ops' = IF Awaited(o).state = "failed" THEN Throw(o, Awaited(o).result)
              ELSE Return(o, Awaited(o).result)
    /\ UNCHANGED <<chain, wallets, calls, handles>>

(* ------------------------------ the node ------------------------------ *)

Loaded == {w \in NodeWallets : wallets[w] = "loaded"}

\* the wallet a request's path names ("" for a request to the base url)
PathWallet(url) == IF Len(url) = 3 THEN url[3] ELSE ""

\* methods the node resolves against the wallet of the request's path
NeedsWallet == {"importprivkey", "getbalance", "getnewaddress", "sendtoaddress", "unloadwallet"}

\* the node refuses the request (an HTTP error status, which axios rejects)
Refused(c) ==
    \/ c.method = "createwallet" /\ wallets[c.params[1]] # "absent"
    \/ c.method \in NeedsWallet /\ PathWallet(c.url) \notin Loaded

\* { result: ... } of a request the node accepts
ResultOf(c) ==
    CASE c.method = "listwallets" -> Loaded
      [] c.method = "createwallet" -> [name |-> c.params[1]]
      [] c.method = "getbalance" -> "balance"
      [] c.method = "getnewaddress" -> "newaddress"
      [] c.method \in FundsMethods -> "txid"
      [] c.method = "getblockchaininfo" -> [chain |-> chain]
      [] OTHER -> "null"

\* the node processes request i and answers it
NodeServe(i) ==
    /\ i \in 1..Len(calls) /\ calls[i].state = "pending"
    /\ LET c == calls[i] IN
       /\ calls' = [calls EXCEPT ![i] =
              IF Refused(c)
              THEN [c EXCEPT !.state = "failed", !.result = [failure |-> "status", call |-> i]]
              ELSE [c EXCEPT !.state = "ok", !.result = ResultOf(c),
                             !.chainAt = IF c.method \in FundsMethods THEN chain ELSE "none"]]
       /\ wallets' = IF Refused(c) THEN wallets
                     ELSE IF c.method = "createwallet"
                     THEN [wallets EXCEPT ![c.params[1]] = "loaded"]
                     ELSE IF c.method = "unloadwallet"
                     THEN [wallets EXCEPT ![PathWallet(c.url)] = "unloaded"]
                     ELSE wallets
    /\ UNCHANGED <<chain, ops, handles>>

\* request i never reaches the node, or its answer is lost: axios rejects
TransportFail(i) ==
    /\ i \in 1..Len(calls) /\ calls[i].state = "pending"
    /\ calls' = [calls EXCEPT ![i].state = "failed",
                              ![i].result = [failure |-> "transport", call |-> i]]
    /\ UNCHANGED <<chain, wallets, ops, handles>>

\* the node behind the url is restarted on another chain.  The client sees the
\* chain only through getblockchaininfo, and the chain only matters when a
\* funds-moving call is executed, so a change is taken at the moments it can
\* make a difference: while such a request is on its way.
NodeReconfigure(c) ==
    /\ \E i \in 1..Len(calls) :
          calls[i].state = "pending" /\ calls[i].method \in FundsMethods \cup {"getblockchaininfo"}
    /\ c # chain
    /\ chain' = c
    /\ UNCHANGED <<wallets, ops, calls, handles>>

(* --------------------------- specification ---------------------------- *)

Satoshis == {Sat(0, 50000000)}

Init ==
    /\ chain = "regtest"
    /\ wallets = [w \in NodeWallets |-> IF w \in InitLoaded THEN "loaded" ELSE "absent"]
    /\ ops = <<>>
    /\ calls = <<>>
    /\ handles = <<>>

Next ==
    \/ \E w \in WalletNames, k \in PrivKeys : newInstance(w, k)
    \/ \E o \in 1..Len(ops) : newInstanceListed(o)
    \/ \E o \in 1..Len(ops) : newInstanceCreated(o)
    \/ \E o \in 1..Len(ops) : newInstanceImported(o)
    \/ \E h \in 1..Len(handles) : getBalance(h)
    \/ \E o \in 1..Len(ops) : getBalanceDone(o)
    \/ \E h \in 1..Len(handles) : getAddress(h)
    \/ \E o \in 1..Len(ops) : getAddressDone(o)
    \/ \E h \in 1..Len(handles), a \in Addresses, s \in Satoshis, n \in Networks :
           sendToAddress(h, a, s, n)
    \/ \E o \in 1..Len(ops) : sendToAddressChecked(o)
    \/ \E o \in 1..Len(ops) : sendToAddressDone(o)
    \/ \E h \in 1..Len(handles), x \in TxHexes, n \in Networks : broadcastTransaction(h, x, n)
    \/ \E o \in 1..Len(ops) : broadcastTransactionChecked(o)
    \/ \E o \in 1..Len(ops) : broadcastTransactionDone(o)
    \/ \E h \in 1..Len(handles) : getFee(h)
    \/ \E h \in 1..Len(handles) : close(h)
    \/ \E o \in 1..Len(ops) : closeDone(o)
    \/ \E i \in 1..Len(calls) : NodeServe(i)
    \/ \E i \in 1..Len(calls) : TransportFail(i)
    \/ \E c \in Networks : NodeReconfigure(c)

Spec == Init /\ [][Next]_vars

(* ------------------------- amounts specification ---------------------- *)
\* sendToAddress on a handle of the loaded wallet "a", for amounts over the whole
\* range of the safe integers.

MaxLo == 3

\* sendToAddress invocations on the handle
MaxSends == 1

AmountHis == {0, 1, 20999999, TwoPow26 - 1, TwoPow26, MaxSafeHi}
AmountLos == (0..MaxLo) \cup {50000000, SatPerBtc - 1}
Amounts == {s \in {Sat(hi, lo) : hi \in AmountHis, lo \in AmountLos} : IsSafeInteger(s)}

\* the state once newInstance(HttpUrl, "user", "pass", "a") has returned
InitAmount ==
    /\ chain = "regtest"
    /\ wallets = [w \in NodeWallets |-> IF w \in InitLoaded THEN "loaded" ELSE "absent"]
    /\ ops = <<[kind |-> "newInstance", state |-> "resolved", pc |-> "done",
                value |-> [handle |-> 1], args |-> [walletName |-> "a", privkey |-> <<>>],
                prior |-> {}]>>
    /\ calls = <<[Post(1, "listwallets", HttpUrl, Auth, <<>>)
                    EXCEPT !.state = "ok", !.result = InitLoaded]>>
    /\ handles = <<rpcRequestConfig(HttpUrl, Auth, "a")>>

NextAmount ==
    \/ \E a \in Addresses, s \in Amounts :
          Len(ops) <= MaxSends /\ sendToAddress(1, a, s, "regtest")
    \/ \E o \in 1..Len(ops) : sendToAddressChecked(o)
    \/ \E o \in 1..Len(ops) : sendToAddressDone(o)
    \/ \E i \in 1..Len(calls) : NodeServe(i)

SpecAmount == InitAmount /\ [][NextAmount]_vars

(* ------------------------------ properties ---------------------------- *)

OpIds == 1..Len(ops)
CallIds == 1..Len(calls)
FundsOps == {"sendToAddress", "broadcastTransaction"}
HandleOps == {"getBalance", "getAddress", "sendToAddress", "broadcastTransaction",
              "getFee", "close"}
NewInstances == {o \in OpIds : ops[o].kind = "newInstance"}
FundsCallsOf(o) == {i \in CallsOf(o) : calls[i].method \in FundsMethods}
ChecksOf(o) == {i \in CallsOf(o) : calls[i].method = "getblockchaininfo"}
\* the check of o was answered, with a chain that is not the requested network
Mismatched(o) ==
    \E j \in ChecksOf(o) : calls[j].state = "ok" /\ calls[j].result.chain # ops[o].args.network
\* the check of o passed: answered, with the requested network
Passed(o) ==
    \E j \in ChecksOf(o) : calls[j].state = "ok" /\ calls[j].result.chain = ops[o].args.network
\* the newInstance that returned handle h
Constructor(h) ==
    CHOOSE o \in NewInstances : ops[o].state = "resolved" /\ ops[o].value.handle = h

\* C1: a funds-moving call (sendtoaddress, sendrawtransaction) is only ever
\* issued after the getblockchaininfo call of the same operation was issued
\* and answered with the requested network; an operation whose check failed
\* (mismatch, or the check call itself failed) has issued no funds-moving call.
C1_CheckBeforeFunds ==
    /\ \A i \in CallIds : calls[i].method \in FundsMethods =>
         /\ ops[calls[i].op].kind \in FundsOps
         /\ \E j \in 1..(i - 1) :
              /\ calls[j].op = calls[i].op
              /\ calls[j].method = "getblockchaininfo"
              /\ calls[j].state = "ok"
              /\ calls[j].result.chain = ops[calls[i].op].args.network
    /\ \A o \in OpIds : ops[o].kind \in FundsOps =>
         /\ ChecksOf(o) # {} /\ \A j \in CallsOf(o) : \E c \in ChecksOf(o) : c <= j
         /\ (\E j \in ChecksOf(o) : calls[j].state = "failed") => FundsCallsOf(o) = {}
         /\ Mismatched(o) => FundsCallsOf(o) = {}

\* sendToAddress for testnet has issued its sendtoaddress call
C1_Witness ==
    /\ \E o \in OpIds : ops[o].kind = "sendToAddress" /\ FundsCallsOf(o) # {}
                        /\ ops[o].args.network = "testnet"
    /\ \E o \in OpIds : ops[o].kind = "newInstance" /\ ops[o].state = "resolved"

\* C2: once the node has answered the check with a chain other than the
\* requested network, the operation has issued no funds-moving call, and when
\* its continuation has run it is rejected with the mismatch message, which
\* names the requested network.
C2_MismatchRejected ==
    \A o \in OpIds : (ops[o].kind \in FundsOps /\ Mismatched(o)) =>
        /\ FundsCallsOf(o) = {}
        /\ ops[o].state # "resolved"
        /\ ops[o].state = "rejected" =>
             /\ ops[o].value \in Seq(STRING)
             /\ Len(ops[o].value) = 5
             /\ ops[o].value[1] = "This wallet is only connected to the "
             /\ ops[o].value[2] = ops[o].args.network

\* sendToAddress(addr1, 50000000, testnet) against a node reporting bitcoin was rejected
C2_Witness ==
    \E o \in OpIds :
        /\ ops[o].kind = "sendToAddress" /\ ops[o].state = "rejected"
        /\ ops[o].args.network = "testnet" /\ ops[o].args.satoshis = Sat(0, 50000000)
        /\ \E j \in ChecksOf(o) : calls[j].state = "ok" /\ calls[j].result.chain = "bitcoin"
        /\ FundsCallsOf(o) = {}

CreatesOf(o) == {i \in CallsOf(o) : calls[i].method = "createwallet"}
ImportsOf(o) == {i \in CallsOf(o) : calls[i].method = "importprivkey"}
ListsOf(o) == {i \in CallsOf(o) : calls[i].method = "listwallets"}

\* C3 as claimed: of two newInstance invocations with the same wallet name, the
\* later one never issues createwallet, whatever the order of their calls.
C3_SecondNeverCreates ==
    \A o1, o2 \in NewInstances :
        (o1 < o2 /\ ops[o1].args.walletName = ops[o2].args.walletName) => CreatesOf(o2) = {}

\* C3 for invocations one after the other, close included: when the first
\* invocation had returned its handle before the second was invoked, the second
\* one issues no createwallet.  It fails: newInstance(c), close on its handle,
\* newInstance(c) lists no c and requests createwallet(c) again.
C3_SecondAfterFirstNeverCreates ==
    \A o1, o2 \in NewInstances :
        ( /\ o1 \in ops[o2].prior /\ ops[o1].state = "resolved"
          /\ ops[o1].args.walletName = ops[o2].args.walletName ) => CreatesOf(o2) = {}

\* C3 amended: when the first invocation had returned its handle before the
\* second was invoked, and the wallet was not unloaded since, the second one
\* issues no createwallet.
C3_SecondAfterFirstSkipsCreate ==
    \A o1, o2 \in NewInstances :
        ( /\ o1 \in ops[o2].prior /\ ops[o1].state = "resolved"
          /\ ops[o1].args.walletName = ops[o2].args.walletName
          /\ wallets[ops[o2].args.walletName] # "unloaded" ) => CreatesOf(o2) = {}

\* newInstance(c) created c and returned; a sendToAddress through its handle
\* was rejected; then a second newInstance(c) returned without createwallet
C3_Witness ==
    \E o1, o2 \in NewInstances, u \in OpIds :
        /\ o1 \in ops[u].prior /\ u \in ops[o2].prior
        /\ ops[o1].args.walletName = "c" /\ ops[o2].args.walletName = "c"
        /\ ops[o1].state = "resolved" /\ CreatesOf(o1) # {}
        /\ ops[u].kind = "sendToAddress" /\ ops[u].state = "rejected"
        /\ ops[u].args.h = ops[o1].value.handle
        /\ ops[o2].state = "resolved"
        /\ CreatesOf(o2) = {}

\* C4: the calls of a newInstance are issued in the order listwallets,
\* createwallet, importprivkey, each one only after the one before it was
\* answered successfully; importprivkey only for a supplied key; the handle is
\* returned only when all of them were answered; and every call made through
\* the handle is issued after all of them.
C4_ConstructionOrder ==
    \A o \in NewInstances :
        LET mine == CallsOf(o)
            lists == {i \in mine : calls[i].method = "listwallets"}
            creates == {i \in mine : calls[i].method = "createwallet"}
            imports == {i \in mine : calls[i].method = "importprivkey"}
        IN
        /\ Cardinality(lists) = 1 /\ Cardinality(creates) <= 1 /\ Cardinality(imports) <= 1
        /\ mine = lists \cup creates \cup imports
        /\ \A l \in lists, c \in creates : l < c
        /\ \A l \in lists \cup creates, k \in imports : l < k
        /\ \A i, j \in mine : i < j => calls[i].state = "ok"
        /\ imports # {} => Truthy(ops[o].args.privkey)
        /\ ops[o].state = "resolved" =>
             /\ \A i \in mine : calls[i].state = "ok"
             /\ Truthy(ops[o].args.privkey) => imports # {}
             /\ \A k \in CallIds :
                    ( /\ ops[calls[k].op].kind \in HandleOps
                      /\ ops[calls[k].op].args.h = ops[o].value.handle ) =>
                    \A i \in mine : i < k

\* a newInstance that created the wallet and imported the key has returned, and getBalance was called on its handle
C4_Witness ==
    \E o \in NewInstances, u \in OpIds :
        /\ ops[o].state = "resolved"
        /\ CreatesOf(o) # {} /\ ImportsOf(o) # {}
        /\ ops[u].kind = "getBalance" /\ ops[u].args.h = ops[o].value.handle
        /\ CallsOf(u) # {}

\* C5: once the continuation of listwallets has run, newInstance has issued a
\* createwallet call, with the target name, exactly when the name was not in
\* the list; the handle it returns has the url <httpUrl>/wallet/<name>, and
\* every call made through the handle goes to that url.
C5_CreateIffAbsent ==
    /\ \A o \in NewInstances :
         /\ \A l \in ListsOf(o) :
              (calls[l].state = "ok" /\ ops[o].pc # "listwallets") =>
                 (CreatesOf(o) # {} <=> ops[o].args.walletName \notin calls[l].result)
         /\ \A c \in CreatesOf(o) :
              calls[c].params = <<ops[o].args.walletName>> /\ calls[c].url = <<HttpUrl>>
         /\ ops[o].state = "resolved" =>
              handles[ops[o].value.handle].url = <<HttpUrl, "/wallet/", ops[o].args.walletName>>
    /\ \A u \in OpIds : ops[u].kind \in HandleOps =>
         \A k \in CallsOf(u) :
            calls[k].url = <<HttpUrl, "/wallet/", ops[Constructor(ops[u].args.h)].args.walletName>>

\* wallets [a, b], target c: createwallet(c), a handle for /wallet/c, and a call through it
C5_Witness ==
    \E o \in NewInstances, u \in OpIds :
        /\ ops[o].args.walletName = "c" /\ ops[o].state = "resolved"
        /\ \E l \in ListsOf(o) : calls[l].result = {"a", "b"}
        /\ \E c \in CreatesOf(o) : calls[c].params = <<"c">>
        /\ handles[ops[o].value.handle].url = <<HttpUrl, "/wallet/", "c">>
        /\ ops[u].kind = "getAddress" /\ ops[u].args.h = ops[o].value.handle
        /\ \E k \in CallsOf(u) : calls[k].url = <<HttpUrl, "/wallet/", "c">>

\* C7: a failed remote call is the last call of its operation (not reissued,
\* nothing issued after it), and once the continuation has run the operation is
\* rejected with the failure of that call; a newInstance with a failed call
\* returns no handle.
C7_FailurePropagates ==
    \A i \in CallIds : calls[i].state = "failed" =>
        LET o == calls[i].op IN
        /\ i = LastCall(o)
        /\ ops[o].state # "resolved"
        /\ ops[o].state = "rejected" => ops[o].value = calls[i].result
        /\ ops[o].kind = "newInstance" =>
             \A h \in 1..Len(handles) : Constructor(h) # o

\* a newInstance with a key whose createwallet failed: rejected with that failure, no importprivkey
C7_Witness ==
    \E o \in NewInstances :
        /\ Truthy(ops[o].args.privkey)
        /\ ops[o].state = "rejected"
        /\ \E c \in CreatesOf(o) : calls[c].state = "failed" /\ ops[o].value = calls[c].result
        /\ ImportsOf(o) = {}

\* the configuration the handle was constructed with
Constructed(h) == rpcRequestConfig(HttpUrl, Auth, ops[Constructor(h)].args.walletName)

\* every call made through a handle carries the url, method and credentials the
\* handle was constructed with
CallsUseHandle ==
    \A u \in OpIds : ops[u].kind \in HandleOps =>
        \A k \in CallsOf(u) :
            /\ calls[k].url = Constructed(ops[u].args.h).url
            /\ calls[k].verb = Constructed(ops[u].args.h).method
            /\ calls[k].auth = Constructed(ops[u].args.h).auth

\* C8: no step changes the rpcRequestConfig of a constructed handle, and every
\* call made through a handle is sent to the url, with the method and the
\* credentials, the handle was constructed with, whatever succeeded, failed, was
\* rejected or was closed before.
C8_HandleImmutable ==
    /\ [](CallsUseHandle)
    /\ [](\A h \in 1..Len(handles) : handles[h] = Constructed(h))
    /\ [][\A h \in 1..Len(handles) : Len(handles') >= h /\ handles'[h] = handles[h]]_vars

\* operation u2 was invoked on the handle of u1 after u1 had finished, and has
\* sent a call with the url, method and credentials the handle was constructed with
UsedAfter(u1, u2) ==
    /\ ops[u2].kind \in HandleOps
    /\ ops[u1].args.h = ops[u2].args.h
    /\ u1 \in ops[u2].prior
    /\ \E k \in CallsOf(u2) :
          /\ calls[k].url = Constructed(ops[u2].args.h).url
          /\ calls[k].verb = Constructed(ops[u2].args.h).method
          /\ calls[k].auth = Constructed(ops[u2].args.h).auth
          /\ handles[ops[u2].args.h] = Constructed(ops[u2].args.h)

\* a handle used again after an operation on it failed with a transport error
C8_AfterTransportError ==
    \E u1, u2 \in OpIds :
        /\ ops[u1].kind \in HandleOps /\ ops[u1].state = "rejected"
        /\ \E k \in CallsOf(u1) : calls[k].state = "failed" /\ ops[u1].value = calls[k].result
        /\ UsedAfter(u1, u2)

\* a handle used again after an operation on it was rejected for a network mismatch
C8_AfterMismatch ==
    \E u1, u2 \in OpIds :
        /\ ops[u1].kind \in FundsOps /\ ops[u1].state = "rejected"
        /\ Mismatched(u1)
        /\ UsedAfter(u1, u2)

\* a handle used again after it was closed
C8_AfterClose ==
    \E u1, u2 \in OpIds :
        /\ ops[u1].kind = "close" /\ ops[u1].state = "resolved"
        /\ UsedAfter(u1, u2)

\* a handle used again after it was closed, and so after a successful operation
C8_Witness == C8_AfterClose

\* C9: every getFee has returned "150" and has issued no remote call.
C9_FeeConstant ==
    \A o \in OpIds : ops[o].kind = "getFee" =>
        /\ ops[o].state = "resolved"
        /\ ops[o].value = "150"
        /\ CallsOf(o) = {}

\* getFee was called on a handle whose construction created the wallet
C9_Witness ==
    \E o \in OpIds : ops[o].kind = "getFee"
        /\ \E u \in NewInstances : ops[u].state = "resolved" /\ CreatesOf(u) # {}
                                    /\ ops[u].value.handle = ops[o].args.h

\* C10: the check and the funds-moving call are two calls, the second issued
\* after the first was answered; the node may execute the funds-moving call on
\* a chain other than the requested network (the witness), and when it does, the
\* check of that operation had been answered with the requested network: the
\* chain changed between the two calls.
C10_CheckThenActNotAtomic ==
    \A i \in CallIds : (calls[i].method \in FundsMethods /\ calls[i].state = "ok") =>
        LET o == calls[i].op IN
        \E j \in ChecksOf(o) :
            /\ j < i
            /\ calls[j].state = "ok"
            /\ calls[i].chainAt # ops[o].args.network =>
                  /\ calls[j].result.chain = ops[o].args.network
                  /\ calls[j].result.chain # calls[i].chainAt

\* a funds-moving call was executed on a chain other than the network its check passed for
C10_Witness ==
    \E i \in CallIds :
        /\ calls[i].method \in FundsMethods /\ calls[i].state = "ok"
        /\ calls[i].chainAt # ops[calls[i].op].args.network
        /\ Passed(calls[i].op)

\* C6 as claimed: the amount of every sendtoaddress call is exactly
\* satoshis / 10^8, for every safe integer number of satoshis.
C6_AmountExact ==
    \A i \in CallIds : calls[i].method = "sendtoaddress" =>
        LET s == ops[calls[i].op].args.satoshis IN
        calls[i].params[2] = [units |-> s.hi, e8 |-> s.lo]

\* C6 amended: the amount of a sendtoaddress call is exactly satoshis / 10^8
\* for every number of satoshis below 2^26 * 10^8 = 6,710,886,400,000,000.
C6_AmountExactBelow2Pow26Btc ==
    \A i \in CallIds : calls[i].method = "sendtoaddress" =>
        LET s == ops[calls[i].op].args.satoshis IN
        s.hi < TwoPow26 => calls[i].params[2] = [units |-> s.hi, e8 |-> s.lo]

\* the largest amount below 2^26 bitcoin was sent
C6_Witness ==
    \E i \in CallIds :
        /\ calls[i].method = "sendtoaddress"
        /\ ops[calls[i].op].args.satoshis = Sat(TwoPow26 - 1, SatPerBtc - 1)
        /\ calls[i].params[2] = [units |-> TwoPow26 - 1, e8 |-> SatPerBtc - 1]

====
